---- MODULE Spec2Model ----
(***************************************************************************)
(* Model of the Vitis workspace builder (launch.py, vitis_build.py,        *)
(* vitis_update.py).  One run of the launcher executes one command; the    *)
(* external world (configuration files, directories, the exit codes of     *)
(* the ninja subprocesses, the vendor client) is read at the point where   *)
(* the code reads it, as a choice over the values it can have.             *)
(*                                                                         *)
(* Every external call the claims speak about is appended to `log` when    *)
(* it happens, so that orderings are state predicates over the log.        *)
(***************************************************************************)
EXTENDS Integers, Sequences, FiniteSets, TLC

\* ---------------------------------------------------------------- bounds
\* number of [domain_N] sections a platform.conf may hold
MaxExtraDomains == 2
\* number of [application_N] sections a vitis.conf may hold
MaxExtraApps == 2

\* return codes of a ninja subprocess (0 = success; 1 is also the code the
\* pipeline itself returns on a missing directory, 2 tells them apart)
ExitCodes == {0, 1, 2}

VARIABLES
    args,            \* argparse.Namespace of the run
    pc,              \* position of the run in the code
    platform_config, \* platform.conf as read by read_config (<<>> = not read)
    vitis_config,    \* vitis.conf as read by read_config (<<>> = not read)
    domains,         \* build_project_all_ninja: the list `domains`
    app_names,       \* build_project_all_ninja: the list `app_names`
    cur,             \* component being built: [stage, sec]
    rest,            \* entries of the current loop still to be visited
    fsbl_dir,        \* zynq_fsbl/build of the platform: "missing",
                     \* "no_build_ninja" or "ok" ("unread" before the build)
    log,             \* external calls made so far, in order
    exit_code,       \* <<>> or <<code>>: value returned by the build function
    status,          \* "running", "returned", "exited" (sys.exit) or "raised"
    sys_exit,        \* <<>> or <<code>>: argument of sys.exit
    updater,         \* ApplicationUpdater: its configuration and environment
    fs,              \* ApplicationUpdater: the project's src directory
    activation,      \* activate_project: the locals of the call
    workspace        \* activate_project: the files it reads and writes

vars == <<args, pc, platform_config, vitis_config, domains, app_names,
          cur, rest, fsbl_dir, log, exit_code, status, sys_exit, updater, fs,
          activation, workspace>>

\* the variables of activate_project
act_vars == <<activation, workspace>>

NoComp == [stage |-> "none", sec |-> 0]

\* ------------------------------------------------------- configuration
\* platform.conf: the [domain] section is absent ("none"), has NAME and
\* PROCESSOR_INSTANCE ("ok") or lacks one of them ("incomplete"); extra[k]
\* is the k-th [domain_N] section in sorted order.
KSeq(S, n) == UNION {[1..k -> S] : k \in 0..n}

PlatformConfigs ==
    [domain : {"none", "ok", "incomplete"},
     extra  : KSeq({"ok", "incomplete"}, MaxExtraDomains),
     boot   : {"absent", "true", "false", "invalid"}]

\* vitis.conf: [application] is absent, has a NAME or lacks it; extra[k] is
\* the k-th [application_N] section in sorted order.
\* A section is "named" (has NAME) or "unnamed"; whether it has CONFIG is
\* read by the functions that use it.
VitisConfigs ==
    [application : {"none", "named", "unnamed"},
     extra       : KSeq({"named", "unnamed"}, MaxExtraApps)]

\* section 0 is [domain] / [application], section k >= 1 is the k-th
\* numbered section
DomainSections(cfg) ==
    (IF cfg.domain = "none" THEN {} ELSE {0}) \cup (1..Len(cfg.extra))

AppSections(cfg) ==
    (IF cfg.application = "none" THEN {} ELSE {0}) \cup (1..Len(cfg.extra))

NamedAppSections(cfg) ==
    (IF cfg.application = "named" THEN {0} ELSE {})
        \cup {k \in 1..Len(cfg.extra) : cfg.extra[k] = "named"}

RECURSIVE SelectIdx(_, _, _)
\* the indices k..Len(s) of s whose element satisfies Keep, in order
SelectIdx(s, k, keep) ==
    IF k > Len(s) THEN <<>>
    ELSE (IF s[k] \in keep THEN <<k>> ELSE <<>>) \o SelectIdx(s, k + 1, keep)

\* lines 499-517: the [domain] section first, then every [domain_N] that
\* has both options
DomainList(cfg) ==
    (IF cfg.domain = "none" THEN <<>> ELSE <<0>>)
        \o SelectIdx(cfg.extra, 1, {"ok"})

\* lines 578-590
AppNameList(cfg) ==
    (IF cfg.application = "named" THEN <<0>> ELSE <<>>)
        \o SelectIdx(cfg.extra, 1, {"named"})

\* variant: an absent BOOT_COMPONENTS counts as false
HasBootComponents_strict(cfg) == cfg.boot = "true"

\* line 553: getboolean("boot", "BOOT_COMPONENTS", fallback=True)
HasBootComponents(cfg) == cfg.boot \in {"absent", "true"}

\* ------------------------------------------------------------------ log
Ev(kind, comp, code) ==
    [ev |-> kind, stage |-> comp.stage, sec |-> comp.sec, code |-> code]

Launched(stage, sec) ==
    \E j \in 1..Len(log) :
        log[j].ev = "launch" /\ log[j].stage = stage /\ log[j].sec = sec

BuiltOk(stage, sec) ==
    \E j \in 1..Len(log) :
        /\ log[j].ev = "exit" /\ log[j].stage = stage /\ log[j].sec = sec
        /\ log[j].code = 0

\* ---------------------------------------------------------------- Init
BuildArgs ==
    [command : {"BUILD"}, all : BOOLEAN, tools : {"vitis", "ninja"},
     clean : BOOLEAN, activate : BOOLEAN]

\* launch.py:132-138
UpdateArgs ==
    [command : {"UPDATE"}, platform : BOOLEAN, application : BOOLEAN,
     no_build : BOOLEAN]

\* launch.py:97-111: CREATE, CREATE_PLATFORM and CREATE_APP take a name
CreateArgs == [command : {"CREATE", "CREATE_PLATFORM", "CREATE_APP"}]

\* launch.py:113-116
ActivateArgs == [command : {"ACTIVATE"}]

Init ==
    /\ args \in BuildArgs \cup UpdateArgs \cup CreateArgs \cup ActivateArgs
    /\ pc = "launch_client"
    /\ platform_config = <<>>
    /\ vitis_config = <<>>
    /\ domains = <<>>
    /\ app_names = <<>>
    /\ cur = NoComp
    /\ rest = <<>>
    /\ fsbl_dir = "unread"
    /\ log = <<>>
    /\ exit_code = <<>>
    /\ status = "running"
    /\ sys_exit = <<>>
    /\ updater = <<>>
    /\ fs = <<>>
    /\ activation = <<>>
    /\ workspace = <<>>

\* ------------------------------------------------ ends of the process
\* the variables of build_project_all_ninja
ninja_vars == <<platform_config, vitis_config, domains, app_names, cur, rest,
                fsbl_dir>>

\* an exception leaves the handler (caught at launch.py:196)
Raise ==
    /\ pc' = "done"
    /\ status' = "raised"
    /\ UNCHANGED sys_exit

SysExit(code) ==
    /\ pc' = "done"
    /\ status' = "exited"
    /\ sys_exit' = <<code>>

ReturnNormally ==
    /\ pc' = "done"
    /\ status' = "returned"
    /\ UNCHANGED sys_exit

\* a build function returns `code` to build_project_wrapper
ReturnBuild(code) ==
    /\ pc' = "after_build"
    /\ exit_code' = <<code>>
    /\ UNCHANGED <<status, sys_exit>>

\* ------------------------------------------------------ launch_client
\* variant: every command gets a client
NeedsClient_always(a) == TRUE

\* launch.py:100-138 (set_defaults) and 147-151: ACTIVATE is registered
\* with needs_client=False, and BUILD --tools ninja is switched to False
NeedsClient(a) ==
    a.command # "ACTIVATE" /\ ~(a.command = "BUILD" /\ a.tools = "ninja")

\* launch.py:100-138: args.func of the command
HandlerPc(a) ==
    CASE a.command = "BUILD"    -> "build_project_wrapper"
      [] a.command = "UPDATE"   -> "update_project_wrapper"
      [] a.command = "CREATE"   -> "project_creator_wrapper"
      [] a.command = "ACTIVATE" -> "activate_project_wrapper"
      [] OTHER                  -> "empty_wrapper"

\* launch.py:147-172: the client and the workspace are created when needed
\* (either call may raise), then the handler is called
LaunchClient ==
    /\ pc = "launch_client"
    /\ IF NeedsClient(args)
       THEN \E failed \in {"none", "create_client", "create_workspace"} :
              /\ log' = log
                    \o <<Ev("create_client", NoComp, 0)>>
                    \o (IF failed = "create_client" THEN <<>>
                        ELSE <<Ev("create_workspace", NoComp, 0)>>)
                    \o (IF failed = "none"
                        THEN <<Ev("handler", NoComp, 0)>> ELSE <<>>)
              /\ IF failed = "none"
                 THEN /\ pc' = HandlerPc(args)
                      /\ UNCHANGED <<status, sys_exit>>
                 ELSE Raise
       ELSE /\ log' = Append(log, Ev("handler", NoComp, 0))
            /\ pc' = HandlerPc(args)
            /\ UNCHANGED <<status, sys_exit>>
    /\ UNCHANGED <<args, act_vars, updater, fs, ninja_vars, exit_code>>

\* launch.py:21-26: create_platform_wrapper and create_application_wrapper
\* do nothing
EmptyWrapper ==
    /\ pc = "empty_wrapper"
    /\ ReturnNormally
    /\ UNCHANGED <<args, act_vars, updater, fs, ninja_vars, log, exit_code>>

\* launch.py:29-31: activate_project_wrapper calls activate_project
ActivateProjectWrapper ==
    /\ pc = "activate_project_wrapper"
    /\ pc' = "activate_project"
    /\ UNCHANGED <<args, act_vars, updater, fs, ninja_vars, log, exit_code, status,
                   sys_exit>>

\* ---------------------------------------------- build_project_wrapper
\* launch.py:36-57 and 66-75: choice of the build function
BuildProjectWrapper ==
    /\ pc = "build_project_wrapper"
    /\ pc' = IF args.all
             THEN (IF args.tools = "ninja" THEN "build_project_all_ninja"
                                          ELSE "build_project_all")
             ELSE (IF args.tools = "ninja" THEN "build_project_ninja"
                                          ELSE "build_project_vitis")
    /\ UNCHANGED <<args, act_vars, updater, fs, ninja_vars, log, exit_code, status, sys_exit>>

\* -------------------------------------------- build_project_all_ninja
\* variant: the result of the component is ignored
StopOnFailure_never(code) == FALSE

\* vitis_build.py:548, 567, 608: `if exit_code != 0`
StopOnFailure(code) == code # 0

\* variant: every failure is reported as 1
ReturnedCode_one(code) == 1

\* vitis_build.py:550, 569, 610: `return exit_code`
ReturnedCode(code) == code

\* what the platform project holds at zynq_fsbl/build
FsblDirStates == {"missing", "no_build_ninja", "ok"}

\* vitis_build.py:475-521: find ninja, check the directories, read
\* platform.conf and collect the domains
NinjaAllStart ==
    /\ pc = "build_project_all_ninja"
    /\ \E envOk \in BOOLEAN :
         IF ~envOk
         THEN /\ ReturnBuild(1)
              /\ UNCHANGED <<args, act_vars, updater, fs, ninja_vars, log>>
         ELSE \E cfg \in PlatformConfigs, fd \in FsblDirStates :
              /\ platform_config' = cfg
              /\ fsbl_dir' = fd
              /\ IF cfg.domain = "incomplete"
                 THEN /\ Raise
                      /\ UNCHANGED <<domains, rest, exit_code>>
                 ELSE IF DomainList(cfg) = <<>>
                 THEN /\ ReturnBuild(1)
                      /\ UNCHANGED <<domains, rest>>
                 ELSE /\ domains' = DomainList(cfg)
                      /\ rest' = DomainList(cfg)
                      /\ pc' = "bsp_loop"
                      /\ UNCHANGED <<exit_code, status, sys_exit>>
              /\ UNCHANGED <<args, act_vars, updater, fs, vitis_config, app_names, cur, log>>

\* vitis_build.py:523-543: next domain, its BSP directory and build.ninja
BspLoop ==
    /\ pc = "bsp_loop"
    /\ rest # <<>>
    /\ \E dirOk \in BOOLEAN :
         IF dirOk
         THEN /\ cur' = [stage |-> "bsp", sec |-> Head(rest)]
              /\ rest' = Tail(rest)
              /\ pc' = "run_ninja"
              /\ UNCHANGED <<exit_code, status, sys_exit>>
         ELSE /\ ReturnBuild(1)
              /\ UNCHANGED <<cur, rest>>
    /\ UNCHANGED <<args, act_vars, updater, fs, platform_config, vitis_config, domains, app_names,
                   fsbl_dir, log>>

\* vitis_build.py:634-648: _run_ninja_in_directory up to the build command;
\* the BSP loop has already seen build.ninja (line 541)
RunNinjaEnter ==
    /\ pc = "run_ninja"
    /\ \E hasBuildNinja \in BOOLEAN :
         /\ cur.stage = "bsp" => hasBuildNinja
         /\ cur.stage = "fsbl" => (hasBuildNinja <=> fsbl_dir = "ok")
         /\ IF hasBuildNinja
            THEN /\ log' = IF args.clean
                            THEN Append(log, Ev("clean", cur, 0))
                            ELSE log
                 /\ pc' = "ninja_launch"
                 /\ UNCHANGED <<exit_code, status, sys_exit>>
            ELSE /\ ReturnBuild(ReturnedCode(1))
                 /\ UNCHANGED log
    /\ UNCHANGED <<args, act_vars, updater, fs, ninja_vars>>

\* vitis_build.py:650-656: subprocess.run([ninja_path]) starts
RunNinjaLaunch ==
    /\ pc = "ninja_launch"
    /\ log' = Append(log, Ev("launch", cur, 0))
    /\ pc' = "ninja_running"
    /\ UNCHANGED <<args, act_vars, updater, fs, ninja_vars, exit_code, status, sys_exit>>

\* variant: the boot loader is built right after the first BSP
NextAfter_early(stage, remaining) ==
    CASE stage = "bsp"  -> "fsbl_stage"
      [] stage = "fsbl" -> "app_stage"
      [] stage = "app"  -> IF remaining = <<>> THEN "apps_done"
                                               ELSE "app_loop"

\* where build_project_all_ninja goes on after a successful component
NextAfter(stage, remaining) ==
    CASE stage = "bsp"  -> IF remaining = <<>> THEN "fsbl_stage"
                                               ELSE "bsp_loop"
      [] stage = "fsbl" -> "app_stage"
      [] stage = "app"  -> IF remaining = <<>> THEN "apps_done"
                                               ELSE "app_loop"

\* variant: a failed component is launched again
RunNinjaExit_retry ==
    /\ pc = "ninja_running"
    /\ \E code \in ExitCodes :
         /\ log' = Append(log, Ev("exit", cur, code))
         /\ pc' = IF code # 0 THEN "ninja_launch"
                              ELSE NextAfter(cur.stage, rest)
         /\ UNCHANGED <<exit_code, status, sys_exit>>
    /\ UNCHANGED <<args, act_vars, updater, fs, ninja_vars>>

\* vitis_build.py:658-663 and the caller's check of the returned code
RunNinjaExit ==
    /\ pc = "ninja_running"
    /\ \E code \in ExitCodes :
         /\ log' = Append(log, Ev("exit", cur, code))
         /\ IF StopOnFailure(code)
            THEN ReturnBuild(ReturnedCode(code))
            ELSE /\ pc' = NextAfter(cur.stage, rest)
                 /\ UNCHANGED <<exit_code, status, sys_exit>>
    /\ UNCHANGED <<args, act_vars, updater, fs, ninja_vars>>

\* vitis_build.py:552-571
FsblStage ==
    /\ pc = "fsbl_stage"
    /\ IF platform_config.boot = "invalid"
       THEN /\ Raise
            /\ UNCHANGED <<cur, exit_code>>
       ELSE IF HasBootComponents(platform_config)
       THEN IF fsbl_dir # "missing"
            THEN /\ cur' = [stage |-> "fsbl", sec |-> 0]
                 /\ pc' = "run_ninja"
                 /\ UNCHANGED <<exit_code, status, sys_exit>>
            ELSE /\ ReturnBuild(1)
                 /\ UNCHANGED cur
       ELSE /\ pc' = "app_stage"
            /\ UNCHANGED <<cur, exit_code, status, sys_exit>>
    /\ UNCHANGED <<args, act_vars, updater, fs, platform_config, vitis_config, domains, app_names,
                   rest, fsbl_dir, log>>

\* vitis_build.py:573-594: read vitis.conf and collect the application names
AppStage ==
    /\ pc = "app_stage"
    /\ \E cfg \in VitisConfigs :
         /\ vitis_config' = cfg
         /\ app_names' = AppNameList(cfg)
         /\ rest' = AppNameList(cfg)
         /\ IF AppNameList(cfg) = <<>>
            THEN ReturnBuild(0)
            ELSE /\ pc' = "app_loop"
                 /\ UNCHANGED <<exit_code, status, sys_exit>>
    /\ UNCHANGED <<args, act_vars, updater, fs, platform_config, domains, cur, fsbl_dir, log>>

\* vitis_build.py:596-603: next application and its build directory
AppLoop ==
    /\ pc = "app_loop"
    /\ rest # <<>>
    /\ \E dirOk \in BOOLEAN :
         IF dirOk
         THEN /\ cur' = [stage |-> "app", sec |-> Head(rest)]
              /\ rest' = Tail(rest)
              /\ pc' = "run_ninja"
              /\ UNCHANGED <<exit_code, status, sys_exit>>
         ELSE /\ ReturnBuild(1)
              /\ UNCHANGED <<cur, rest>>
    /\ UNCHANGED <<args, act_vars, updater, fs, platform_config, vitis_config, domains, app_names,
                   fsbl_dir, log>>

\* vitis_build.py:612-613
NinjaAllDone ==
    /\ pc = "apps_done"
    /\ ReturnBuild(0)
    /\ UNCHANGED <<args, act_vars, updater, fs, ninja_vars, log>>

\* ---------------------------------------------------- build_project_all
RECURSIVE SelectSeq2(_, _)
\* the elements of s that lie in keep, in order
SelectSeq2(s, keep) ==
    IF s = <<>> THEN <<>>
    ELSE (IF Head(s) \in keep THEN <<Head(s)>> ELSE <<>>)
             \o SelectSeq2(Tail(s), keep)

\* vitis_build.py:166-212: the applications ProjectBuilder loads are the
\* sections with NAME and CONFIG (with_config)
LoadedAppList(cfg, with_config) == SelectSeq2(AppNameList(cfg), with_config)

\* variant: only an exception counts as a failure
VitisBuildFailed_raised_only(raised, code) == raised

\* vitis_build.py:226, 238: `status != 0`, and the except clauses
VitisBuildFailed(raised, code) == raised \/ code # 0

\* vitis_build.py:443-444 with ProjectBuilder.__init__ (132-151); any
\* exception of the constructor is turned into return code 1 (446-451)
BuildProjectAll ==
    /\ pc = "build_project_all"
    /\ \E ok \in BOOLEAN :
         IF ~ok
         THEN /\ ReturnBuild(1)
              /\ UNCHANGED <<vitis_config, app_names, rest>>
         ELSE \E cfg \in VitisConfigs :
              \E with_config \in SUBSET NamedAppSections(cfg) :
              /\ vitis_config' = cfg
              /\ app_names' = LoadedAppList(cfg, with_config)
              /\ rest' = LoadedAppList(cfg, with_config)
              /\ pc' = "vitis_platform_build"
              /\ UNCHANGED <<exit_code, status, sys_exit>>
    /\ UNCHANGED <<args, act_vars, updater, fs, platform_config, domains, cur, fsbl_dir, log>>

\* vitis_build.py:223-231: ProjectBuilder.build, the platform
VitisPlatformBuild ==
    /\ pc = "vitis_platform_build"
    /\ \E raised \in BOOLEAN, code \in ExitCodes :
         /\ log' = Append(log, Ev(IF raised THEN "vraise" ELSE "vbuild",
                                  [stage |-> "platform", sec |-> 0],
                                  IF raised THEN 0 ELSE code))
         /\ IF VitisBuildFailed(raised, code)
            THEN ReturnBuild(1)
            ELSE IF rest = <<>>
            THEN ReturnBuild(0)
            ELSE /\ pc' = "vitis_app_build"
                 /\ UNCHANGED <<exit_code, status, sys_exit>>
    /\ UNCHANGED <<args, act_vars, updater, fs, ninja_vars>>

\* vitis_build.py:233-246: ProjectBuilder.build, one application
VitisAppBuild ==
    /\ pc = "vitis_app_build"
    /\ rest # <<>>
    /\ \E raised \in BOOLEAN, code \in ExitCodes :
         /\ log' = Append(log, Ev(IF raised THEN "vraise" ELSE "vbuild",
                                  [stage |-> "vapp", sec |-> Head(rest)],
                                  IF raised THEN 0 ELSE code))
         /\ rest' = Tail(rest)
         /\ IF VitisBuildFailed(raised, code)
            THEN ReturnBuild(1)
            ELSE IF Tail(rest) = <<>>
            THEN ReturnBuild(0)
            ELSE /\ pc' = "vitis_app_build"
                 /\ UNCHANGED <<exit_code, status, sys_exit>>
    /\ UNCHANGED <<args, act_vars, updater, fs, platform_config, vitis_config, domains, app_names,
                   cur, fsbl_dir>>

\* -------------------------------------------------- build_project_vitis
\* vitis_build.py:394-427: returns 0 exactly when app.build() returned 0
BuildProjectVitis ==
    /\ pc = "build_project_vitis"
    /\ \E found \in BOOLEAN :
         IF ~found
         THEN /\ ReturnBuild(1)
              /\ UNCHANGED log
         ELSE \E raised \in BOOLEAN, code \in ExitCodes :
              /\ log' = Append(log, Ev(IF raised THEN "vraise" ELSE "vbuild",
                                       [stage |-> "single", sec |-> 0],
                                       IF raised THEN 0 ELSE code))
              /\ ReturnBuild(IF ~raised /\ code = 0 THEN 0 ELSE 1)
    /\ UNCHANGED <<args, act_vars, updater, fs, ninja_vars>>

\* -------------------------------------------------- build_project_ninja
\* vitis_build.py:338-384: the checks, the optional clean, the build
\* command starts
BuildProjectNinja ==
    /\ pc = "build_project_ninja"
    /\ \E envOk \in BOOLEAN :
         IF ~envOk
         THEN /\ ReturnBuild(1)
              /\ UNCHANGED <<log, cur>>
         ELSE /\ cur' = [stage |-> "single", sec |-> 0]
              /\ log' = (IF args.clean
                          THEN Append(log, Ev("clean", cur', 0))
                          ELSE log) \o <<Ev("launch", cur', 0)>>
              /\ pc' = "single_running"
              /\ UNCHANGED <<exit_code, status, sys_exit>>
    /\ UNCHANGED <<args, act_vars, updater, fs, platform_config, vitis_config, domains, app_names,
                   rest, fsbl_dir>>

\* vitis_build.py:386-391: `return result.returncode`
BuildProjectNinjaExit ==
    /\ pc = "single_running"
    /\ \E code \in ExitCodes :
         /\ log' = Append(log, Ev("exit", cur, code))
         /\ ReturnBuild(code)
    /\ UNCHANGED <<args, act_vars, updater, fs, ninja_vars>>

\* ------------------------------------------ after the build (wrapper)
\* variant: the exit code of the build is not looked at
ShouldActivate_any(code, activate) == activate

\* launch.py:60, 78: `if exit_code == 0 and args.activate`
ShouldActivate(code, activate) == code = 0 /\ activate

\* launch.py:59-64 and 77-82
AfterBuild ==
    /\ pc = "after_build"
    /\ IF ShouldActivate(exit_code[1], args.activate)
       THEN /\ pc' = "activate_project"
            /\ UNCHANGED <<status, sys_exit>>
       ELSE IF args.all \/ exit_code[1] # 0
       THEN SysExit(exit_code[1])
       ELSE ReturnNormally
    /\ UNCHANGED <<args, act_vars, updater, fs, ninja_vars, log, exit_code>>

\* vitis_build.py:28-124 as called from launch.py:31-33, 61-62 and 79: the
\* three existence checks return False before anything is written; for
\* ACTIVATE a failure exits with 1, with --all the result becomes the exit
\* status, for a single application it is dropped
ActivateProject ==
    /\ pc = "activate_project"
    /\ \E success \in BOOLEAN :
         /\ log' = Append(log, Ev("activate", NoComp,
                                  IF success THEN 0 ELSE 1))
         /\ IF args.command = "ACTIVATE"
            THEN (IF success THEN ReturnNormally ELSE SysExit(1))
            ELSE IF args.all
            THEN SysExit(IF success THEN 0 ELSE 1)
            ELSE IF exit_code[1] # 0
            THEN SysExit(exit_code[1])
            ELSE ReturnNormally
    /\ UNCHANGED <<args, act_vars, updater, fs, ninja_vars, exit_code>>

\* ------------------------------------------------------ ProjectUpdater
\* every section of the list, skipped or not: [domain] / [application]
\* first when present, then the numbered sections in sorted order
RECURSIVE Iota(_, _)
Iota(a, b) == IF a > b THEN <<>> ELSE <<a>> \o Iota(a + 1, b)

\* vitis_update.py:143-151
UpdateSectionList(cfg) ==
    (IF cfg.application = "none" THEN <<>> ELSE <<0>>)
        \o Iota(1, Len(cfg.extra))

SectionState(cfg, sec) == IF sec = 0 THEN cfg.application ELSE cfg.extra[sec]

\* variant: the two "only" flags are read the wrong way round
UpdatePlatformFlag_swapped(a) == ~a.platform

\* vitis_update.py:62: update_platform = not self.__update_application_only
UpdatePlatformFlag(a) == ~a.application

\* vitis_update.py:63: update_applications = not self.__update_platform_only
UpdateApplicationsFlag(a) == ~a.platform

\* variant: the rebuild ignores --no-build
ShouldRebuild_always(a) == TRUE

\* vitis_update.py:71: `if not self.__no_build`
ShouldRebuild(a) == ~a.no_build

\* position after the platform step of update()
AfterPlatformPc(a) ==
    IF UpdateApplicationsFlag(a) THEN "update_applications"
    ELSE IF ShouldRebuild(a) THEN "rebuild" ELSE "update_done"

\* launch.py:85-88 with ProjectUpdater.__init__ (vitis_update.py:33-55):
\* vitis.conf is read and the platform project must exist
UpdateProjectWrapper ==
    /\ pc = "update_project_wrapper"
    /\ \E ok \in BOOLEAN :
         IF ~ok
         THEN /\ Raise
              /\ UNCHANGED vitis_config
         ELSE \E cfg \in VitisConfigs :
              /\ vitis_config' = cfg
              /\ pc' = "update"
              /\ UNCHANGED <<status, sys_exit>>
    /\ UNCHANGED <<args, act_vars, updater, fs, platform_config, domains, app_names, cur, rest,
                   fsbl_dir, log, exit_code>>

\* vitis_update.py:57-69: what update() runs first
Update ==
    /\ pc = "update"
    /\ pc' = IF UpdatePlatformFlag(args) THEN "update_platform"
             ELSE AfterPlatformPc(args)
    /\ UNCHANGED <<args, act_vars, updater, fs, ninja_vars, log, exit_code, status, sys_exit>>

\* the domain sections __update_domains visits before one of them raises:
\* the sections 0..k-1 when section k is the first not complete
RECURSIVE ConfiguredUpTo(_, _)
ConfiguredUpTo(cfg, k) ==
    IF k > Len(cfg.extra) \/ cfg.extra[k] # "ok" THEN <<>>
    ELSE <<Ev("configure_domain", [stage |-> "domain", sec |-> k], 0)>>
             \o ConfiguredUpTo(cfg, k + 1)

DomainUpdateEvents(cfg) ==
    IF cfg.domain # "ok" THEN <<>>
    ELSE <<Ev("configure_domain", [stage |-> "domain", sec |-> 0], 0)>>
             \o ConfiguredUpTo(cfg, 1)

\* every domain section has the options __update_domains reads
AllDomainsComplete(cfg) ==
    cfg.domain = "ok" /\ \A k \in 1..Len(cfg.extra) : cfg.extra[k] = "ok"

\* vitis_update.py:76-138: __update_platform with __update_domains; the
\* platform component may be missing (RuntimeError) and a section that
\* lacks an option raises when it is reached.  platform_config is a local
\* of the function.
UpdatePlatform ==
    /\ pc = "update_platform"
    /\ \E found \in BOOLEAN, cfg \in PlatformConfigs :
         IF ~found
         THEN /\ log' = Append(log, Ev("update_platform", NoComp, 0))
              /\ Raise
         ELSE IF ~AllDomainsComplete(cfg)
         THEN /\ log' = log \o <<Ev("update_platform", NoComp, 0)>>
                             \o DomainUpdateEvents(cfg)
              /\ Raise
         ELSE /\ log' = log \o <<Ev("update_platform", NoComp, 0)>>
                             \o DomainUpdateEvents(cfg)
                             \o <<Ev("update_platform_done", NoComp, 0)>>
              /\ pc' = AfterPlatformPc(args)
              /\ UNCHANGED <<status, sys_exit>>
    /\ UNCHANGED <<args, act_vars, updater, fs, ninja_vars, exit_code>>

\* vitis_update.py:140-151: __update_applications starts
UpdateApplications ==
    /\ pc = "update_applications"
    /\ log' = Append(log, Ev("update_applications", NoComp, 0))
    /\ rest' = UpdateSectionList(vitis_config)
    /\ pc' = "update_single_application"
    /\ UNCHANGED <<args, act_vars, updater, fs, platform_config, vitis_config, domains, app_names,
                   cur, fsbl_dir, exit_code, status, sys_exit>>

\* vitis_update.py:153-178: __update_single_application for the next
\* section; ApplicationUpdater.update() runs to its end inside this step
\* (its effect on the src directory is the subject of SpecUpdater)
UpdateSingleApplication ==
    /\ pc = "update_single_application"
    /\ rest # <<>>
    /\ LET sec == Head(rest)
           st  == SectionState(vitis_config, sec)
       IN
       IF st = "unnamed"
       THEN /\ rest' = Tail(rest)
            /\ UNCHANGED <<log, pc, status, sys_exit>>
       ELSE \E has_config \in BOOLEAN, exists \in BOOLEAN :
            IF ~has_config
            THEN /\ exists
                 /\ Raise
                 /\ UNCHANGED <<log, rest>>
            ELSE /\ rest' = Tail(rest)
                 /\ log' = IF exists
                            THEN Append(log, Ev("update_app",
                                        [stage |-> "uapp", sec |-> sec], 0))
                            ELSE log
                 /\ UNCHANGED <<pc, status, sys_exit>>
    /\ UNCHANGED <<args, act_vars, updater, fs, platform_config, vitis_config, domains, app_names,
                   cur, fsbl_dir, exit_code>>

\* vitis_update.py:150-151, 71: the loop of __update_applications is over
UpdateApplicationsDone ==
    /\ pc = "update_single_application"
    /\ rest = <<>>
    /\ log' = Append(log, Ev("update_applications_done", NoComp, 0))
    /\ pc' = IF ShouldRebuild(args) THEN "rebuild" ELSE "update_done"
    /\ UNCHANGED <<args, act_vars, updater, fs, ninja_vars, exit_code, status, sys_exit>>

\* vitis_update.py:180-192: __rebuild, the platform (built when the client
\* returns the component; the status of build() is dropped)
Rebuild ==
    /\ pc = "rebuild"
    /\ \E found \in BOOLEAN, raised \in BOOLEAN :
         /\ ~found => ~raised
         /\ log' = log \o <<Ev("rebuild", NoComp, 0)>>
                \o (IF found
                    THEN <<Ev(IF raised THEN "vraise" ELSE "vbuild",
                              [stage |-> "platform", sec |-> 0], 0)>>
                    ELSE <<>>)
         /\ IF raised
            THEN /\ Raise
                 /\ UNCHANGED rest
            ELSE /\ rest' = UpdateSectionList(vitis_config)
                 /\ pc' = "rebuild_applications"
                 /\ UNCHANGED <<status, sys_exit>>
    /\ UNCHANGED <<args, act_vars, updater, fs, platform_config, vitis_config, domains, app_names,
                   cur, fsbl_dir, exit_code>>

\* vitis_update.py:194-212: __rebuild, the next application section; the
\* [application] section is read without a has_option check (line 196)
RebuildApplication ==
    /\ pc = "rebuild_applications"
    /\ rest # <<>>
    /\ LET sec == Head(rest)
           st  == SectionState(vitis_config, sec)
       IN
       IF st = "unnamed"
       THEN IF sec = 0
            THEN /\ Raise
                 /\ UNCHANGED <<log, rest>>
            ELSE /\ rest' = Tail(rest)
                 /\ UNCHANGED <<log, pc, status, sys_exit>>
       ELSE \E found \in BOOLEAN, raised \in BOOLEAN :
            /\ ~found => ~raised
            /\ log' = IF found
                       THEN Append(log, Ev(IF raised THEN "vraise" ELSE "vbuild",
                                   [stage |-> "vapp", sec |-> sec], 0))
                       ELSE log
            /\ IF raised
               THEN /\ Raise
                    /\ UNCHANGED rest
               ELSE /\ rest' = Tail(rest)
                    /\ UNCHANGED <<pc, status, sys_exit>>
    /\ UNCHANGED <<args, act_vars, updater, fs, platform_config, vitis_config, domains, app_names,
                   cur, fsbl_dir, exit_code>>

\* vitis_update.py:212: the loop of __rebuild is over
RebuildDone ==
    /\ pc = "rebuild_applications"
    /\ rest = <<>>
    /\ pc' = "update_done"
    /\ UNCHANGED <<args, act_vars, updater, fs, ninja_vars, log, exit_code, status, sys_exit>>

\* vitis_update.py:74 and launch.py:88: update() returns
UpdateDone ==
    /\ pc = "update_done"
    /\ ReturnNormally
    /\ UNCHANGED <<args, act_vars, updater, fs, ninja_vars, log, exit_code>>

\* ------------------------------------------------------ ProjectCreator
\* launch.py:16-18 with ProjectCreator.__init__ (vitis_create.py:35-41):
\* vitis.conf is read
ProjectCreatorWrapper ==
    /\ pc = "project_creator_wrapper"
    /\ \E ok \in BOOLEAN :
         IF ~ok
         THEN /\ Raise
              /\ UNCHANGED vitis_config
         ELSE \E cfg \in VitisConfigs :
              /\ vitis_config' = cfg
              /\ pc' = "create"
              /\ UNCHANGED <<status, sys_exit>>
    /\ UNCHANGED <<args, act_vars, updater, fs, platform_config, domains, app_names, cur, rest,
                   fsbl_dir, log, exit_code>>

RECURSIVE DomainEvents(_, _, _)
\* one event of the given kind for each of the domains a..b
DomainEvents(kind, a, b) ==
    IF a > b THEN <<>>
    ELSE <<Ev(kind, [stage |-> "domain", sec |-> a], 0)>>
             \o DomainEvents(kind, a + 1, b)

\* vitis_platform.py:365-382: VitisPlatform.create makes the platform
\* component (which holds the first domain), adds the other domains and
\* then configures every domain
PlatformCreateEvents(cfg) ==
    <<Ev("create_platform", NoComp, 0)>>
        \o DomainEvents("add_domain", 1, Len(cfg.extra))
        \o DomainEvents("configure_domain", 0, Len(cfg.extra))

\* vitis_create.py:44-54: the VitisPlatform constructor (vitis_platform.py:
\* 275-300) raises unless every domain section is complete; create() makes
\* its calls in order and any of them may raise (n calls were made)
Create ==
    /\ pc = "create"
    /\ \E cfg \in PlatformConfigs :
         IF ~AllDomainsComplete(cfg)
         THEN /\ Raise
              /\ UNCHANGED log
         ELSE \E n \in 0..Len(PlatformCreateEvents(cfg)), raised \in BOOLEAN :
              /\ n < Len(PlatformCreateEvents(cfg)) => raised
              /\ log' = log \o SubSeq(PlatformCreateEvents(cfg), 1, n)
              /\ IF raised
                 THEN Raise
                 ELSE /\ pc' = "create_applications"
                      /\ UNCHANGED <<status, sys_exit>>
    /\ UNCHANGED <<args, act_vars, updater, fs, ninja_vars, exit_code>>

\* vitis_create.py:56, 66-76: __create_applications visits [application]
\* and then the numbered sections in sorted order
CreateApplications ==
    /\ pc = "create_applications"
    /\ rest' = UpdateSectionList(vitis_config)
    /\ app_names' = <<>>
    /\ pc' = "create_single_application"
    /\ UNCHANGED <<args, act_vars, updater, fs, platform_config, vitis_config, domains, cur,
                   fsbl_dir, log, exit_code, status, sys_exit>>

\* variant: the new application is put in front of the list
AppendApplication_front(apps, sec) == <<sec>> \o apps

\* vitis_create.py:108: self.__applications.append(application)
AppendApplication(apps, sec) == Append(apps, sec)

\* vitis_create.py:79-108: __create_single_application for the next
\* section: skipped without NAME or CONFIG; the constructor, create() and
\* configure() may each raise
CreateSingleApplication ==
    /\ pc = "create_single_application"
    /\ rest # <<>>
    /\ LET sec  == Head(rest)
           comp == [stage |-> "capp", sec |-> Head(rest)]
       IN
       IF SectionState(vitis_config, sec) = "unnamed"
       THEN /\ rest' = Tail(rest)
            /\ UNCHANGED <<log, app_names, pc, status, sys_exit>>
       ELSE \E has_config \in BOOLEAN,
               failed \in {"none", "init", "create", "configure"} :
            IF ~has_config
            THEN /\ failed = "none"
                 /\ rest' = Tail(rest)
                 /\ UNCHANGED <<log, app_names, pc, status, sys_exit>>
            ELSE /\ log' = log
                       \o (IF failed = "init" THEN <<>>
                           ELSE <<Ev("app_create", comp, 0)>>)
                       \o (IF failed \in {"init", "create"} THEN <<>>
                           ELSE <<Ev("app_configure", comp, 0)>>)
                 /\ IF failed = "none"
                    THEN /\ rest' = Tail(rest)
                         /\ app_names' = AppendApplication(app_names, sec)
                         /\ UNCHANGED <<pc, status, sys_exit>>
                    ELSE /\ Raise
                         /\ UNCHANGED <<rest, app_names>>
    /\ UNCHANGED <<args, act_vars, updater, fs, platform_config, vitis_config, domains, cur,
                   fsbl_dir, exit_code>>

\* vitis_create.py:58-59: after the last section the platform is built
\* (the status of build() is dropped)
CreateBuildPlatform ==
    /\ pc = "create_single_application"
    /\ rest = <<>>
    /\ \E raised \in BOOLEAN :
         /\ log' = Append(log, Ev(IF raised THEN "vraise" ELSE "vbuild",
                                  [stage |-> "platform", sec |-> 0], 0))
         /\ IF raised
            THEN /\ Raise
                 /\ UNCHANGED rest
            ELSE /\ rest' = app_names
                 /\ pc' = "create_build_application"
                 /\ UNCHANGED <<status, sys_exit>>
    /\ UNCHANGED <<args, act_vars, updater, fs, platform_config, vitis_config, domains,
                   app_names, cur, fsbl_dir, exit_code>>

\* vitis_create.py:61-63: the next application of the list is built
CreateBuildApplication ==
    /\ pc = "create_build_application"
    /\ rest # <<>>
    /\ \E raised \in BOOLEAN :
         /\ log' = Append(log, Ev(IF raised THEN "vraise" ELSE "vbuild",
                                  [stage |-> "vapp", sec |-> Head(rest)], 0))
         /\ IF raised
            THEN /\ Raise
                 /\ UNCHANGED rest
            ELSE /\ rest' = Tail(rest)
                 /\ UNCHANGED <<pc, status, sys_exit>>
    /\ UNCHANGED <<args, act_vars, updater, fs, platform_config, vitis_config, domains,
                   app_names, cur, fsbl_dir, exit_code>>

\* vitis_create.py:61-63 and launch.py:18: create() returns
CreateDone ==
    /\ pc = "create_build_application"
    /\ rest = <<>>
    /\ ReturnNormally
    /\ UNCHANGED <<args, act_vars, updater, fs, ninja_vars, log, exit_code>>

\* ---------------------------------------------------------------- Next
Next ==
    \/ ProjectCreatorWrapper
    \/ Create
    \/ CreateApplications
    \/ CreateSingleApplication
    \/ CreateBuildPlatform
    \/ CreateBuildApplication
    \/ CreateDone
    \/ UpdateProjectWrapper
    \/ Update
    \/ UpdatePlatform
    \/ UpdateApplications
    \/ UpdateSingleApplication
    \/ UpdateApplicationsDone
    \/ Rebuild
    \/ RebuildApplication
    \/ RebuildDone
    \/ UpdateDone
    \/ LaunchClient
    \/ EmptyWrapper
    \/ ActivateProjectWrapper
    \/ BuildProjectWrapper
    \/ NinjaAllStart
    \/ BspLoop
    \/ RunNinjaEnter
    \/ RunNinjaLaunch
    \/ RunNinjaExit
    \/ FsblStage
    \/ AppStage
    \/ AppLoop
    \/ NinjaAllDone
    \/ BuildProjectAll
    \/ VitisPlatformBuild
    \/ VitisAppBuild
    \/ BuildProjectVitis
    \/ BuildProjectNinja
    \/ BuildProjectNinjaExit
    \/ AfterBuild
    \/ ActivateProject

Spec == Init /\ [][Next]_vars

\* ================================================== ApplicationUpdater
\* ApplicationUpdater.update() on one src directory.  A name is
\* <<stem, suffix>>; an entry of the directory is a regular file, a symlink
\* to a file, a dangling symlink, a directory or a symlink to a directory.
Names == {<<"main", ".c">>, <<"irq", ".S">>, <<"startup", ".s">>}

Kinds == {"file", "link", "broken", "dir", "dirlink"}

\* vitis_update.py:314: item.endswith(('.c', '.S', '.h'))
EndsWithSource(n) == n[2] \in {".c", ".S", ".h"}

\* os.path.isfile / islink / isdir / exists (the first, third and fourth
\* follow symlinks)
IsFile(k) == k \in {"file", "link"}
IsLink(k) == k \in {"link", "broken", "dirlink"}
IsDir(k) == k \in {"dir", "dirlink"}
Exists(k) == k \in {"file", "link", "dir", "dirlink"}

\* os.listdir(self.__project_src_dir)
Listdir(f) == {n \in Names : f.ent[n] # "absent"}

\* the directories the program can find: a missing src directory has no
\* entries
FsStates ==
    {f \in [dir_exists : BOOLEAN, ent : [Names -> Kinds \cup {"absent"}]] :
        ~f.dir_exists => \A n \in Names : f.ent[n] = "absent"}

\* the inputs of one update: whether source_files is set and not blank,
\* the basenames it lists, those whose source path does not exist, what
\* os.symlink does (a link, the copy of the Windows fallback, an error),
\* whether os.remove / shutil.rmtree succeed, and the directory at the start
UpdaterInputs ==
    {u \in [sources_set : BOOLEAN, desired : SUBSET Names,
             nosrc : SUBSET Names, link_mode : {"symlink", "copy", "fail"},
             rm_ok : BOOLEAN, fs0 : FsStates] :
        /\ u.nosrc \subseteq u.desired
        /\ ~u.sources_set => u.desired = {}}

\* variant: only symbolic links count as current entries
CurrentFileSymlinks_linksonly(f) ==
    {n \in Listdir(f) : IsLink(f.ent[n]) /\ ~IsDir(f.ent[n])
                           /\ EndsWithSource(n)}

\* vitis_update.py:303-320: the keys of __get_current_file_symlinks()
CurrentFileSymlinks(f) ==
    {n \in Listdir(f) :
        /\ IsFile(f.ent[n]) \/ (IsLink(f.ent[n]) /\ ~IsDir(f.ent[n]))
        /\ EndsWithSource(n)}

\* vitis_update.py:350-363: __remove_symlink; an exception is logged and
\* leaves the entry in place
RemoveSymlink(k, rm_ok) ==
    IF ~rm_ok THEN k
    ELSE IF IsLink(k) \/ IsDir(k) \/ IsFile(k) THEN "absent"
    ELSE k

\* variant: every current entry is treated as stale
RemoveStale_all(f, desired, rm_ok) ==
    [f EXCEPT !.ent =
        [n \in Names |->
            IF n \in CurrentFileSymlinks(f)
            THEN RemoveSymlink(f.ent[n], rm_ok)
            ELSE f.ent[n]]]

\* vitis_update.py:255-263: remove stale file symlinks
RemoveStale(f, desired, rm_ok) ==
    [f EXCEPT !.ent =
        [n \in Names |->
            IF n \in CurrentFileSymlinks(f) /\ n \notin desired
            THEN RemoveSymlink(f.ent[n], rm_ok)
            ELSE f.ent[n]]]

\* vitis_application.py:110-152: _create_symlink on the entry of kind k
CreateSymlink(k, src_exists, dir_exists, link_mode) ==
    IF Exists(k) \/ IsLink(k) THEN k
    ELSE IF ~src_exists \/ ~dir_exists THEN k
    ELSE CASE link_mode = "symlink" -> "link"
           [] link_mode = "copy"    -> "file"
           [] link_mode = "fail"    -> k

\* vitis_update.py:265-270: add new symlinks
AddNew(f, desired, nosrc, link_mode) ==
    [f EXCEPT !.ent =
        [n \in Names |->
            IF n \in desired /\ ~Exists(f.ent[n]) /\ ~IsLink(f.ent[n])
            THEN CreateSymlink(f.ent[n], n \notin nosrc, f.dir_exists,
                               link_mode)
            ELSE f.ent[n]]]

\* vitis_update.py:243-270: __update_source_files
UpdateSourceFiles ==
    /\ pc = "update_source_files"
    /\ fs' = IF ~updater.sources_set THEN fs
             ELSE AddNew(RemoveStale(fs, updater.desired, updater.rm_ok),
                         updater.desired, updater.nosrc, updater.link_mode)
    /\ pc' = "update_source_folders"
    /\ UNCHANGED <<args, act_vars, updater, ninja_vars, log, exit_code, status,
                   sys_exit>>

\* vitis_update.py:322-348: the keys of __get_current_folder_symlinks();
\* has_src are the real directories that hold .c or .S files
CurrentFolderSymlinks(f, has_src) ==
    {n \in Listdir(f) :
        \/ IsLink(f.ent[n]) /\ IsDir(f.ent[n])
        \/ IsDir(f.ent[n]) /\ ~IsLink(f.ent[n]) /\ n \in has_src}

\* vitis_application.py:187-262: _create_folder_symlink on the entry of
\* kind k; when os.symlink fails the directory is recreated with makedirs
CreateFolderSymlink(k, src_ok, link_mode) ==
    IF Exists(k) \/ IsLink(k) THEN k
    ELSE IF ~src_ok THEN k
    ELSE IF link_mode = "symlink" THEN "dirlink" ELSE "dir"

\* vitis_update.py:291-301 on the directory f
UpdateFolders(f, current, dfolders, src_ok, link_mode, rm_ok) ==
    LET removed == [n \in Names |->
                      IF n \in current /\ n \notin dfolders
                      THEN RemoveSymlink(f.ent[n], rm_ok)
                      ELSE f.ent[n]]
        added   == [n \in Names |->
                      IF n \in dfolders /\ n \notin current
                      THEN CreateFolderSymlink(removed[n], src_ok,
                              IF f.dir_exists THEN link_mode ELSE "fail")
                      ELSE removed[n]]
    IN [dir_exists |-> f.dir_exists \/ \E n \in Names : added[n] # "absent",
        ent |-> added]

\* vitis_update.py:272-301: __update_source_folders; the configured
\* folders and their state are read here
UpdateSourceFolders ==
    /\ pc = "update_source_folders"
    /\ \E folders_set \in BOOLEAN, dfolders \in SUBSET Names,
          has_src \in SUBSET Names, src_ok \in BOOLEAN :
         /\ ~folders_set => (dfolders = {} /\ src_ok)
         /\ has_src \subseteq {n \in Names : fs.ent[n] = "dir"}
         /\ fs' = IF ~folders_set THEN fs
                  ELSE UpdateFolders(fs, CurrentFolderSymlinks(fs, has_src),
                                     dfolders, src_ok, updater.link_mode,
                                     updater.rm_ok)
    /\ pc' = "update_userconfig"
    /\ UNCHANGED <<args, act_vars, updater, ninja_vars, log, exit_code, status,
                   sys_exit>>

\* vitis_update.py:235-241, 365-472: __update_userconfig and
\* __update_linker_script write UserConfig.cmake and lscript.ld, which are
\* not among Names
UpdaterFinish ==
    /\ pc = "update_userconfig"
    /\ pc' = "updater_done"
    /\ UNCHANGED <<args, act_vars, updater, fs, ninja_vars, log, exit_code, status,
                   sys_exit>>

InitUpdater ==
    /\ args = [command |-> "UPDATE", platform |-> FALSE,
               application |-> FALSE, no_build |-> FALSE]
    /\ pc = "update_source_files"
    /\ updater \in UpdaterInputs
    /\ fs = updater.fs0
    /\ activation = <<>>
    /\ workspace = <<>>
    /\ platform_config = <<>>
    /\ vitis_config = <<>>
    /\ domains = <<>>
    /\ app_names = <<>>
    /\ cur = NoComp
    /\ rest = <<>>
    /\ fsbl_dir = "unread"
    /\ log = <<>>
    /\ exit_code = <<>>
    /\ status = "running"
    /\ sys_exit = <<>>

NextUpdater ==
    \/ UpdateSourceFiles
    \/ UpdateSourceFolders
    \/ UpdaterFinish

SpecUpdater == InitUpdater /\ [][NextUpdater]_vars

\* ==================================================== activate_project
\* Calls of activate_project, one after the other, for projects whose
\* sources share one common parent directory.  The workspace holds the
\* compile_commands.json of each project ("absent", or the name of the
\* project whose commands it contains) and, in the common parent, .clangd
\* and the entry compile_commands.json: absent, a regular file with the
\* commands `of`, a symlink to the database of project `of`, or a directory.
Projects == {"p1", "p2"}

NoEntry == [kind |-> "absent", of |-> "none"]

EntryStates ==
    {NoEntry, [kind |-> "dir", of |-> "none"], [kind |-> "file", of |-> "old"]}
        \cup [kind : {"link"}, of : Projects]

WorkspaceStates ==
    {w \in [db : [Projects -> {"absent"} \cup Projects],
            clangd : {"absent", "other"},
            cdb : EntryStates] :
        \A p \in Projects : w.db[p] \in {"absent", p}}

\* what the three os.path.exists calls of lines 43-55 find
FoundStates == [dir : BOOLEAN, db : BOOLEAN, cfg : BOOLEAN]

\* variant: the check of the project's compile_commands.json is left out
ChecksPass_nodb(found) == found.dir /\ found.cfg

\* vitis_build.py:42-57: none of the three checks returns False
ChecksPass(found) == found.dir /\ found.db /\ found.cfg

\* vitis_build.py:103: os.path.exists(dest) or os.path.islink(dest)
DestPresent(e) == e.kind # "absent"

\* vitis_build.py:103-108: os.remove fails on a directory, and any failure
\* is logged and leaves the entry in place
RemoveOld(e, rm_ok) ==
    IF DestPresent(e) /\ rm_ok /\ e.kind # "dir" THEN NoEntry ELSE e

\* vitis_build.py:116-121: shutil.copy2(compile_db_src, compile_db_dest),
\* which writes through a symlink and into a directory, and raises when
\* source and destination are the same file
Copy2(w, p, copy_ok, target_dir_ok) ==
    LET e == w.cdb IN
    IF ~copy_ok THEN [ok |-> FALSE, w |-> w]
    ELSE CASE e.kind \in {"absent", "file"} ->
                [ok |-> TRUE,
                 w  |-> [w EXCEPT !.cdb = [kind |-> "file", of |-> w.db[p]]]]
           [] e.kind = "dir" -> [ok |-> TRUE, w |-> w]
           [] e.kind = "link" ->
                IF e.of = p THEN [ok |-> FALSE, w |-> w]
                ELSE IF w.db[e.of] = "absent" /\ ~target_dir_ok
                THEN [ok |-> FALSE, w |-> w]
                ELSE [ok |-> TRUE,
                      w  |-> [w EXCEPT !.db[e.of] = w.db[p]]]

\* vitis_build.py:110-121: os.symlink, which fails when the entry is still
\* there or when links are not available, and then the copy
LinkOrCopy(w, p, link_ok, copy_ok, target_dir_ok) ==
    IF link_ok /\ ~DestPresent(w.cdb)
    THEN [ok |-> TRUE, w |-> [w EXCEPT !.cdb = [kind |-> "link", of |-> p]]]
    ELSE Copy2(w, p, copy_ok, target_dir_ok)

\* the variables activate_project leaves alone
launch_vars == <<args, updater, fs, ninja_vars, log, exit_code, status,
                 sys_exit>>

\* vitis_build.py:28-57: a call for one project, up to the three checks;
\* `before` keeps the workspace as the call found it
ActivateChecks ==
    /\ pc \in {"act_idle", "act_returned"}
    /\ \E p \in Projects, found \in FoundStates :
         /\ found.db <=> workspace.db[p] # "absent"
         /\ found.db => found.dir
         /\ activation' = [project |-> p, found |-> found,
                           result |-> IF ChecksPass(found) THEN "none"
                                                           ELSE "False",
                           before |-> workspace]
         /\ pc' = IF ChecksPass(found) THEN "act_common_parent"
                                       ELSE "act_returned"
    /\ UNCHANGED <<workspace, launch_vars>>

\* vitis_build.py:59-85: the application configuration is read and the
\* common parent computed; read_config or os.path.commonpath may raise
ActivateCommonParent ==
    /\ pc = "act_common_parent"
    /\ \E raised \in BOOLEAN :
         IF raised
         THEN /\ activation' = [activation EXCEPT !.result = "raised"]
              /\ pc' = "act_returned"
         ELSE /\ pc' = "act_clangd"
              /\ UNCHANGED activation
    /\ UNCHANGED <<workspace, launch_vars>>

\* vitis_build.py:87-99: .clangd is written; a failure returns False
ActivateWriteClangd ==
    /\ pc = "act_clangd"
    /\ \E ok \in BOOLEAN :
         IF ok
         THEN /\ workspace' = [workspace EXCEPT !.clangd = "written"]
              /\ pc' = "act_remove_old"
              /\ UNCHANGED activation
         ELSE /\ activation' = [activation EXCEPT !.result = "False"]
              /\ pc' = "act_returned"
              /\ UNCHANGED workspace
    /\ UNCHANGED launch_vars

\* vitis_build.py:101-108: the old entry is removed when there is one
ActivateRemoveOld ==
    /\ pc = "act_remove_old"
    /\ \E rm_ok \in BOOLEAN :
         workspace' = [workspace EXCEPT !.cdb = RemoveOld(@, rm_ok)]
    /\ pc' = "act_link"
    /\ UNCHANGED <<activation, launch_vars>>

\* vitis_build.py:110-124: symlink or copy, and the result of the call
ActivateLink ==
    /\ pc = "act_link"
    /\ \E link_ok \in BOOLEAN, copy_ok \in BOOLEAN, target_dir_ok \in BOOLEAN :
         LET r == LinkOrCopy(workspace, activation.project, link_ok, copy_ok,
                             target_dir_ok)
         IN /\ workspace' = r.w
            /\ activation' = [activation EXCEPT
                                 !.result = IF r.ok THEN "True" ELSE "False"]
    /\ pc' = "act_returned"
    /\ UNCHANGED launch_vars

InitActivate ==
    /\ args = [command |-> "ACTIVATE"]
    /\ pc = "act_idle"
    /\ workspace \in WorkspaceStates
    /\ activation = [project |-> "none",
                     found |-> [dir |-> TRUE, db |-> TRUE, cfg |-> TRUE],
                     result |-> "none", before |-> workspace]
    /\ updater = <<>>
    /\ fs = <<>>
    /\ platform_config = <<>>
    /\ vitis_config = <<>>
    /\ domains = <<>>
    /\ app_names = <<>>
    /\ cur = NoComp
    /\ rest = <<>>
    /\ fsbl_dir = "unread"
    /\ log = <<>>
    /\ exit_code = <<>>
    /\ status = "running"
    /\ sys_exit = <<>>

NextActivate ==
    \/ ActivateChecks
    \/ ActivateCommonParent
    \/ ActivateWriteClangd
    \/ ActivateRemoveOld
    \/ ActivateLink

SpecActivate == InitActivate /\ [][NextActivate]_vars

\* ================================================================ claims
\* the run is BUILD --all --tools ninja (build_project_all_ninja)
NinjaAll == args.command = "BUILD" /\ args.all /\ args.tools = "ninja"

\* build_project_all_ninja has returned or raised
NinjaAllFinished == NinjaAll /\ (exit_code # <<>> \/ status = "raised")

IsEv(j, kind, stage) == log[j].ev = kind /\ log[j].stage = stage

\* an event of the given kind for (stage, sec) lies before position j
Before(j, kind, stage, sec) ==
    \E i \in 1..(j - 1) : IsEv(i, kind, stage) /\ log[i].sec = sec

OkBefore(j, stage, sec) ==
    \E i \in 1..(j - 1) :
        IsEv(i, "exit", stage) /\ log[i].sec = sec /\ log[i].code = 0

\* C1: in build_project_all_ninja the builds are launched in stage order:
\* when the FSBL build is launched every domain of the list has had its BSP
\* build launched, no BSP build is launched after the FSBL or an
\* application, and when an application build is launched every BSP build
\* and (BOOT_COMPONENTS true or absent) the FSBL build has exited with 0.
C1_StageOrder ==
    NinjaAll =>
      \A j \in 1..Len(log) :
        /\ IsEv(j, "launch", "fsbl") =>
              \A k \in 1..Len(domains) : Before(j, "launch", "bsp", domains[k])
        /\ IsEv(j, "launch", "bsp") =>
              ~\E i \in 1..(j - 1) :
                  IsEv(i, "launch", "fsbl") \/ IsEv(i, "launch", "app")
        /\ IsEv(j, "launch", "app") =>
              /\ \A k \in 1..Len(domains) : OkBefore(j, "bsp", domains[k])
              /\ platform_config.boot \in {"true", "absent"}
                    => OkBefore(j, "fsbl", 0)

\* an application build is running after two BSPs and the FSBL
C1_Witness ==
    /\ NinjaAll /\ pc = "ninja_running" /\ cur.stage = "app"
    /\ Len(domains) >= 2 /\ BuiltOk("fsbl", 0)

\* C2: a ninja build of build_project_all_ninja that exits with a non-zero
\* code is the last thing the function does: the function has returned that
\* same code and nothing was launched after it.
C2_FailFast ==
    NinjaAll =>
      \A j \in 1..Len(log) :
        (log[j].ev = "exit" /\ log[j].code # 0) =>
            /\ j = Len(log)
            /\ exit_code = <<log[j].code>>
            /\ pc \in {"after_build", "done"}

\* a BSP build exited with 2 while later components were still to be built
C2_Witness ==
    /\ NinjaAll /\ exit_code = <<2>> /\ rest # <<>>
    /\ platform_config # <<>> /\ platform_config.boot = "true"
    /\ log[Len(log)].ev = "exit" /\ log[Len(log)].stage = "bsp"

\* C3: no component entry has its ninja build command launched twice.
C3_NoRetry ==
    \A i, j \in 1..Len(log) :
        (i < j /\ log[i].ev = "launch" /\ log[j].ev = "launch")
            => <<log[i].stage, log[i].sec>> # <<log[j].stage, log[j].sec>>

\* the function has returned after a failed application build that followed
\* other builds
C3_Witness ==
    /\ NinjaAll /\ exit_code # <<>> /\ exit_code # <<0>>
    /\ Launched("bsp", 0) /\ Launched("app", 1)
    /\ log[Len(log)].ev = "exit" /\ log[Len(log)].code # 0

\* C4 as stated: build_project_all_ninja returns 0 only if a ninja build
\* ran and exited 0 for every [domain] / [domain_N] section, for the FSBL
\* when BOOT_COMPONENTS is true, for every application section with a NAME.
C4_Original ==
    (NinjaAll /\ exit_code = <<0>>) =>
        /\ \A d \in DomainSections(platform_config) : BuiltOk("bsp", d)
        /\ platform_config.boot \in {"true", "absent"} => BuiltOk("fsbl", 0)
        /\ \A a \in NamedAppSections(vitis_config) : BuiltOk("app", a)

\* the [domain_N] sections that have NAME and PROCESSOR_INSTANCE
CompleteDomainSections(cfg) ==
    (IF cfg.domain = "none" THEN {} ELSE {0})
        \cup {k \in 1..Len(cfg.extra) : cfg.extra[k] = "ok"}

\* C4 amended: build_project_all_ninja returns 0 only if a ninja build ran
\* and exited 0 for [domain] and every [domain_N] section that has both
\* NAME and PROCESSOR_INSTANCE, for the FSBL when BOOT_COMPONENTS is true
\* or absent, and for every application section that has a NAME.
C4_ZeroMeansAllBuilt ==
    (NinjaAll /\ exit_code = <<0>>) =>
        /\ \A d \in CompleteDomainSections(platform_config) :
               BuiltOk("bsp", d)
        /\ platform_config.boot \in {"true", "absent"} => BuiltOk("fsbl", 0)
        /\ \A a \in NamedAppSections(vitis_config) : BuiltOk("app", a)

\* 0 was returned for a project with two domains, an FSBL and applications
C4_Witness ==
    /\ NinjaAll /\ exit_code = <<0>>
    /\ Cardinality(CompleteDomainSections(platform_config)) >= 2
    /\ platform_config.boot = "true"
    /\ Cardinality(NamedAppSections(vitis_config)) >= 2

\* every BSP build of a non-empty domain list has exited with 0
AllBspSucceeded ==
    /\ domains # <<>>
    /\ \A k \in 1..Len(domains) : BuiltOk("bsp", domains[k])

\* C5 as stated: the FSBL build is launched if and only if all BSP builds
\* succeeded and BOOT_COMPONENTS is true or absent; when it is false no
\* FSBL build is launched and the application stage still runs.
C5_Original ==
    NinjaAllFinished =>
        /\ Launched("fsbl", 0) <=>
              (AllBspSucceeded
                 /\ platform_config.boot \in {"true", "absent"})
        /\ (AllBspSucceeded /\ platform_config.boot = "false") =>
              (~Launched("fsbl", 0) /\ vitis_config # <<>>)

\* C5 amended: the FSBL build is launched if and only if all BSP builds
\* succeeded, BOOT_COMPONENTS is true or absent, and the platform's
\* zynq_fsbl/build directory exists and holds build.ninja; when
\* BOOT_COMPONENTS is false no FSBL build is launched and the application
\* stage still runs.
C5_FsblIff ==
    NinjaAllFinished =>
        /\ Launched("fsbl", 0) <=>
              (AllBspSucceeded
                 /\ platform_config.boot \in {"true", "absent"}
                 /\ fsbl_dir = "ok")
        /\ (AllBspSucceeded /\ platform_config.boot = "false") =>
              (~Launched("fsbl", 0) /\ vitis_config # <<>>)

\* the FSBL was built although BOOT_COMPONENTS is absent
C5_Witness ==
    /\ NinjaAllFinished /\ Launched("fsbl", 0)
    /\ platform_config.boot = "absent"

\* the run is UPDATE
IsUpdate == args.command = "UPDATE"

HasEv(kind) == \E j \in 1..Len(log) : log[j].ev = kind

EvBefore(j, kind) == \E i \in 1..(j - 1) : log[i].ev = kind

\* update() is past its update steps and has not raised in them
UpdateStepsOver ==
    \/ pc \in {"rebuild", "rebuild_applications", "update_done"}
    \/ pc = "done" /\ status = "returned"

UpdateEvents ==
    {"update_platform", "configure_domain", "update_platform_done",
     "update_applications", "update_app", "update_applications_done"}

IsBuildOf(j, stage) ==
    log[j].ev \in {"vbuild", "vraise"} /\ log[j].stage = stage

AfterSourceFiles ==
    /\ pc = "update_source_folders"
    /\ updater.sources_set /\ updater.desired # {} /\ updater.nosrc = {}
    /\ fs.dir_exists /\ updater.rm_ok /\ updater.link_mode # "fail"

HandlerRan == HasEv("handler")

\* C11: for CREATE, UPDATE and BUILD --tools vitis the handler runs only
\* after vitis.create_client and then create_workspace were called, in this
\* order and once each; for ACTIVATE and BUILD --tools ninja neither is ever
\* called.
C11_ClientBeforeHandler ==
    /\ (args.command \in {"CREATE", "UPDATE"}
          \/ (args.command = "BUILD" /\ args.tools = "vitis")) =>
         (HandlerRan =>
            /\ Len(log) >= 3
            /\ log[1].ev = "create_client"
            /\ log[2].ev = "create_workspace"
            /\ log[3].ev = "handler"
            /\ \A j \in 4..Len(log) :
                  log[j].ev \notin {"create_client", "create_workspace",
                                    "handler"})
    /\ (args.command = "ACTIVATE"
          \/ (args.command = "BUILD" /\ args.tools = "ninja")) =>
         (~HasEv("create_client") /\ ~HasEv("create_workspace"))

\* an UPDATE run went through the client, the workspace and its handler,
\* and has updated the platform
C11_Witness ==
    /\ args.command = "UPDATE"
    /\ HandlerRan /\ HasEv("update_platform_done")
    /\ pc = "done"

\* the run is BUILD --all --tools vitis (build_project_all)
VitisAll == args.command = "BUILD" /\ args.all /\ args.tools = "vitis"

\* the Vitis build of the component returned status 0
VBuiltOk(stage, sec) ==
    \E j \in 1..Len(log) :
        /\ log[j].ev = "vbuild" /\ log[j].stage = stage /\ log[j].sec = sec
        /\ log[j].code = 0

\* the j-th call is a Vitis build that raised or returned a non-zero status
VBuildFailedAt(j) ==
    \/ log[j].ev = "vraise"
    \/ log[j].ev = "vbuild" /\ log[j].code # 0

\* C12: build_project_all builds an application only after the platform
\* was built with status 0, builds nothing after a build that raised or
\* returned a non-zero status, returns 0 exactly when the platform and every
\* loaded application were built with status 0 and 1 otherwise, and never
\* lets an exception leave.
C12_BuildAllResult ==
    VitisAll =>
      /\ HandlerRan => status # "raised"
      /\ \A j \in 1..Len(log) :
            /\ IsBuildOf(j, "vapp") =>
                  \E i \in 1..(j - 1) :
                      IsBuildOf(i, "platform") /\ ~VBuildFailedAt(i)
            /\ VBuildFailedAt(j) =>
                  \A i \in (j + 1)..Len(log) :
                      log[i].ev \notin {"vbuild", "vraise"}
      /\ exit_code # <<>> =>
            /\ exit_code[1] \in {0, 1}
            /\ exit_code[1] = 0 <=>
                  /\ VBuiltOk("platform", 0)
                  /\ \A k \in 1..Len(app_names) :
                        VBuiltOk("vapp", app_names[k])

\* the platform and two loaded applications were built and 0 was returned
C12_Witness ==
    /\ VitisAll /\ exit_code = <<0>>
    /\ Len(app_names) >= 2
    /\ VBuiltOk("vapp", app_names[2])

\* the run is CREATE
IsCreate == args.command = "CREATE"

\* position of the call that created the application of section sec
\* (0 when there is none)
CreatedAt(sec) ==
    IF \E j \in 1..Len(log) : log[j].ev = "app_create" /\ log[j].sec = sec
    THEN CHOOSE j \in 1..Len(log) :
             log[j].ev = "app_create" /\ log[j].sec = sec
    ELSE 0

\* C13: in ProjectCreator.create an application is created only after the
\* platform was created and every domain added to it was configured; each
\* application is configured right after it was created; the platform
\* build starts after every creation and configuration; an application is
\* built only after the platform build, and the applications are built in
\* the order of their creation.
C13_CreateOrder ==
    IsCreate =>
      \A j \in 1..Len(log) :
        /\ log[j].ev = "app_create" =>
              /\ EvBefore(j, "create_platform")
              /\ \E i \in 1..(j - 1) :
                    log[i].ev = "configure_domain" /\ log[i].sec = 0
              /\ \A i \in 1..Len(log) :
                    log[i].ev = "add_domain" =>
                      \E k \in (i + 1)..(j - 1) :
                          /\ log[k].ev = "configure_domain"
                          /\ log[k].sec = log[i].sec
              /\ \A i \in (j + 1)..Len(log) :
                    log[i].ev \notin {"create_platform", "add_domain",
                                      "configure_domain"}
        /\ log[j].ev = "app_configure" =>
              /\ j > 1
              /\ log[j - 1].ev = "app_create"
              /\ log[j - 1].sec = log[j].sec
        /\ IsBuildOf(j, "platform") =>
              /\ \A i \in (j + 1)..Len(log) :
                    log[i].ev \notin {"app_create", "app_configure"}
              /\ \A i \in 1..(j - 1) :
                    log[i].ev = "app_create" =>
                      (i + 1 < j /\ log[i + 1].ev = "app_configure")
        /\ IsBuildOf(j, "vapp") =>
              /\ \E i \in 1..(j - 1) : IsBuildOf(i, "platform")
              /\ CreatedAt(log[j].sec) # 0
              /\ \A i \in 1..(j - 1) :
                    IsBuildOf(i, "vapp") =>
                      CreatedAt(log[i].sec) < CreatedAt(log[j].sec)

\* a platform with a second domain and two applications was created and
\* built to the end
C13_Witness ==
    /\ IsCreate /\ status = "returned"
    /\ \E j \in 1..Len(log) : log[j].ev = "add_domain"
    /\ \E i, j \in 1..Len(log) :
          i < j /\ IsBuildOf(i, "vapp") /\ IsBuildOf(j, "vapp")

\* a call of activate_project has returned or raised
ActivateOver == pc = "act_returned"

\* C14: when the project directory, the project's compile_commands.json
\* or the configuration folder does not exist, activate_project returns
\* False and the project databases, .clangd and compile_commands.json at
\* the common parent are as the call found them.
C14_NoWriteWhenMissing ==
    (ActivateOver /\ ~(activation.found.dir /\ activation.found.db
                          /\ activation.found.cfg)) =>
        /\ activation.result = "False"
        /\ workspace = activation.before

\* a call for a project that was never built returned False next to an
\* active database of the other project
C14_Witness ==
    /\ ActivateOver
    /\ activation.found.dir /\ ~activation.found.db
    /\ activation.result = "False"
    /\ workspace.cdb.kind = "link" /\ workspace.cdb.of # activation.project
    /\ workspace.clangd = "written"

\* C15: after activate_project(P) returned True the entry
\* compile_commands.json of the common parent is a symlink to P's
\* compile_commands.json or a regular file with its content.
C15_Original ==
    (ActivateOver /\ activation.result = "True") =>
        \/ workspace.cdb.kind = "link"
              /\ workspace.cdb.of = activation.project
        \/ workspace.cdb.kind = "file"
              /\ workspace.cdb.of = workspace.db[activation.project]

====
